---- MODULE Spec2Model ----
(***************************************************************************)
(* Model of scripts/generateTranslations.js: fetch a published sheet as    *)
(* CSV, reshape its rows into translations / keyMap / languages, and write *)
(* one JSON file per language plus keys.json and languages.json.           *)
(*                                                                         *)
(* Strings are sequences of characters.  The characters are named:         *)
(*   "BS" backslash, "DQ" double quote, "CR", "LF", "SP" space,            *)
(*   "a", "b", "n" ordinary letters.                                       *)
(* A JavaScript object with string keys is the sequence of its own         *)
(* properties <<k, v>> in insertion order, which is the order              *)
(* Object.entries yields for the column names used here (none is an        *)
(* integer index or a name inherited from Object.prototype).  A Set is the *)
(* duplicate-free sequence of its elements in insertion order.             *)
(***************************************************************************)
EXTENDS Integers, Sequences, FiniteSets, TLC

VARIABLES pc, header, rows, i, j, translations, keyMap, languages,
          dirCreated, disk, writes, console, exitCode

vars == <<pc, header, rows, i, j, translations, keyMap, languages,
          dirCreated, disk, writes, console, exitCode>>

(* ---------------------------- bounds ---------------------------------- *)

MaxRows == 2
MaxLen == 4

(* --------------------------- characters ------------------------------- *)

Whitespace == {"SP", "CR", "LF"}
Chars == {"BS", "DQ", "CR", "LF", "SP", "a"}

(* undefined: the value of row.key when the record has no such property;
   a value that is no string over the characters above *)
Undefined == <<"undefined">>

(* ------------------------ String.prototype ---------------------------- *)

RECURSIVE ReplaceBackslash(_)
ReplaceBackslash(s) ==
  IF s = <<>> THEN <<>>
  ELSE IF Head(s) = "BS" THEN <<"BS", "BS">> \o ReplaceBackslash(Tail(s))
  ELSE <<Head(s)>> \o ReplaceBackslash(Tail(s))

RECURSIVE ReplaceQuote(_)
ReplaceQuote(s) ==
  IF s = <<>> THEN <<>>
  ELSE IF Head(s) = "DQ" THEN <<"BS", "DQ">> \o ReplaceQuote(Tail(s))
  ELSE <<Head(s)>> \o ReplaceQuote(Tail(s))

RECURSIVE ReplaceNewline(_)
ReplaceNewline(s) ==
  IF s = <<>> THEN <<>>
  ELSE IF Len(s) >= 2 /\ s[1] = "CR" /\ s[2] = "LF"
    THEN <<"BS", "n">> \o ReplaceNewline(Tail(Tail(s)))
  ELSE IF Head(s) = "LF" THEN <<"BS", "n">> \o ReplaceNewline(Tail(s))
  ELSE <<Head(s)>> \o ReplaceNewline(Tail(s))

RECURSIVE TrimStart(_)
TrimStart(s) ==
  IF s # <<>> /\ Head(s) \in Whitespace THEN TrimStart(Tail(s)) ELSE s

RECURSIVE TrimEnd(_)
TrimEnd(s) ==
  IF s # <<>> /\ s[Len(s)] \in Whitespace
    THEN TrimEnd(SubSeq(s, 1, Len(s) - 1)) ELSE s

Trim(s) == TrimEnd(TrimStart(s))

(* the quote step run before the backslash step *)
SafeValue_QuoteFirst(value) ==
  Trim(ReplaceNewline(ReplaceBackslash(ReplaceQuote(value))))

(* value.replace(/\\/g, ..).replace(/"/g, ..).replace(/\r?\n/g, ..).trim() *)
SafeValue(value) == Trim(ReplaceNewline(ReplaceQuote(ReplaceBackslash(value))))

(* row.key without the trim *)
RawKey_NoTrim(row) == row.key

(* row.key?.trim() *)
RawKey(row) == IF row.key = Undefined THEN Undefined ELSE Trim(row.key)

(* a test for undefined alone: the empty string passes it *)
Falsy_UndefinedOnly(x) == x = Undefined

(* !x for a string or undefined *)
Falsy(x) == x = Undefined \/ x = <<>>

(* ------------------------- objects and sets --------------------------- *)

Keys(obj) == {obj[n][1] : n \in 1..Len(obj)}

Has(obj, k) == k \in Keys(obj)

Get(obj, k) == obj[CHOOSE n \in 1..Len(obj) : obj[n][1] = k][2]

(* obj[k] ??= v: an existing property keeps its value *)
Put_KeepFirst(obj, k, v) == IF Has(obj, k) THEN obj ELSE Append(obj, <<k, v>>)

(* obj[k] = v *)
Put(obj, k, v) ==
  IF Has(obj, k)
    THEN [n \in 1..Len(obj) |-> IF obj[n][1] = k THEN <<k, v>> ELSE obj[n]]
    ELSE Append(obj, <<k, v>>)

(* obj[k] ??= {} *)
EnsureObject(obj, k) == IF Has(obj, k) THEN obj ELSE Append(obj, <<k, <<>>>>)

Elements(set) == {set[n] : n \in 1..Len(set)}

(* set.add(x) *)
Add(set, x) == IF x \in Elements(set) THEN set ELSE Append(set, x)

(* translations[lang] ??= {}; ...; translations[lang][rawKey] = safeValue *)
StoreTranslation(tr, lang, rawKey, value) ==
  LET t == EnsureObject(tr, lang)
  IN Put(t, lang, Put(Get(t, lang), rawKey, SafeValue(value)))

(* ------------------------------ input --------------------------------- *)

(* Language columns of the published sheet, after the key column. *)
Headers == {<<"en", "fr">>, <<"keys", "en">>}

KeyValues == {Undefined, <<>>, <<"SP">>, <<"a">>, <<"SP", "a">>, <<"b">>}

CellValues == {<<>>, <<"SP">>, <<"DQ">>}

RowsOf(h) == [key : KeyValues, cells : [1..Len(h) -> CellValues]]

Inputs(h) == UNION {[1..n -> RowsOf(h)] : n \in 0..MaxRows}

(* Object.entries(row): the key column first, then the language columns *)
ColumnsOf(h) == <<"key">> \o h

Columns == ColumnsOf(header)

Cell(row, c) == IF c = 1 THEN row.key ELSE row.cells[c - 1]

(* ------------------------------ output -------------------------------- *)

(* path.join(outputDir, `${name}.json`) *)
FilePath(name) == <<"src", "i18n", "locales", name, "json">>

(* JSON.stringify(value, null, 2) of an object, of an array *)
StringifyObject(obj) == [type |-> "object", members |-> obj]
StringifyArray(arr) == [type |-> "array", elements |-> arr]

WriteFile(d, path, content) == (path :> content) @@ d

(* ------------------------------- run ---------------------------------- *)

Init ==
  /\ pc = "start"
  /\ header = <<>>
  /\ rows = <<>>
  /\ i = 1
  /\ j = 1
  /\ translations = <<>>
  /\ keyMap = <<>>
  /\ languages = <<>>
  /\ dirCreated = FALSE
  /\ disk = <<>>
  /\ writes = <<>>
  /\ console = <<>>
  /\ exitCode = "running"

RowPc(n, rs) == IF n > Len(rs) THEN "mkdir" ELSE "row"

(* a loop that stops one entry early *)
WritePc_SkipLast(w) ==
  IF w >= Len(translations) THEN "writeKeys" ELSE "writeLang"

WritePc(w) == IF w > Len(translations) THEN "writeKeys" ELSE "writeLang"

Start ==
  /\ pc = "start"
  /\ pc' = "fetch"
  /\ console' = Append(console, <<"log", "fetching">>)
  /\ UNCHANGED <<header, rows, i, j, translations, keyMap, languages,
                 dirCreated, disk, writes, exitCode>>

FetchOk ==
  /\ pc = "fetch"
  /\ \E h \in Headers : \E rs \in Inputs(h) :
       /\ header' = h
       /\ rows' = rs
       /\ pc' = RowPc(1, rs)
  /\ UNCHANGED <<i, j, translations, keyMap, languages,
                 dirCreated, disk, writes, console, exitCode>>

Reject ==
  /\ pc' = "rejected"
  /\ UNCHANGED <<header, rows, i, j, translations, keyMap, languages,
                 dirCreated, disk, writes, console, exitCode>>

FetchFail ==
  /\ pc = "fetch"
  /\ Reject

SkipRow ==
  /\ pc = "row"
  /\ Falsy(RawKey(rows[i]))
  /\ i' = i + 1
  /\ pc' = RowPc(i + 1, rows)
  /\ UNCHANGED <<header, rows, j, translations, keyMap, languages,
                 dirCreated, disk, writes, console, exitCode>>

(* the registry keyed by the untrimmed cell *)
BeginRow_Untrimmed ==
  /\ pc = "row"
  /\ ~Falsy(RawKey(rows[i]))
  /\ keyMap' = Put(keyMap, rows[i].key, rows[i].key)
  /\ j' = 1
  /\ pc' = "cell"
  /\ UNCHANGED <<header, rows, i, translations, languages,
                 dirCreated, disk, writes, console, exitCode>>

BeginRow ==
  /\ pc = "row"
  /\ ~Falsy(RawKey(rows[i]))
  /\ keyMap' = Put(keyMap, RawKey(rows[i]), RawKey(rows[i]))
  /\ j' = 1
  /\ pc' = "cell"
  /\ UNCHANGED <<header, rows, i, translations, languages,
                 dirCreated, disk, writes, console, exitCode>>

NextCell ==
  IF j = Len(Columns)
    THEN /\ i' = i + 1
         /\ j' = 1
         /\ pc' = RowPc(i + 1, rows)
    ELSE /\ j' = j + 1
         /\ UNCHANGED <<i, pc>>

SkipCell ==
  /\ pc = "cell"
  /\ Columns[j] = "key" \/ Falsy(Cell(rows[i], j))
  /\ NextCell
  /\ UNCHANGED <<header, rows, translations, keyMap, languages,
                 dirCreated, disk, writes, console, exitCode>>

StoreCell ==
  /\ pc = "cell"
  /\ ~(Columns[j] = "key" \/ Falsy(Cell(rows[i], j)))
  /\ translations' =
       StoreTranslation(translations, Columns[j], RawKey(rows[i]), Cell(rows[i], j))
  /\ languages' = Add(languages, Columns[j])
  /\ NextCell
  /\ UNCHANGED <<header, rows, keyMap, dirCreated, disk, writes, console, exitCode>>

MkdirOk ==
  /\ pc = "mkdir"
  /\ dirCreated' = TRUE
  /\ i' = 1
  /\ pc' = WritePc(1)
  /\ UNCHANGED <<header, rows, j, translations, keyMap, languages,
                 disk, writes, console, exitCode>>

MkdirFail ==
  /\ pc = "mkdir"
  /\ Reject

WriteLangOk ==
  /\ pc = "writeLang"
  /\ LET lang == translations[i][1]
         data == translations[i][2]
     IN /\ disk' = WriteFile(disk, FilePath(lang), StringifyObject(data))
        /\ writes' = Append(writes, FilePath(lang))
        /\ console' = Append(console, <<"log", "created", lang>>)
  /\ i' = i + 1
  /\ pc' = WritePc(i + 1)
  /\ UNCHANGED <<header, rows, j, translations, keyMap, languages,
                 dirCreated, exitCode>>

(* a failed write that is swallowed inside the loop *)
WriteLangFail_Continue ==
  /\ pc = "writeLang"
  /\ i' = i + 1
  /\ pc' = WritePc(i + 1)
  /\ UNCHANGED <<header, rows, j, translations, keyMap, languages,
                 dirCreated, disk, writes, console, exitCode>>

(* fs.writeFileSync throws: nothing is written, the promise is rejected *)
WriteLangFail ==
  /\ pc = "writeLang"
  /\ Reject

WriteKeysOk ==
  /\ pc = "writeKeys"
  /\ disk' = WriteFile(disk, FilePath("keys"), StringifyObject(keyMap))
  /\ writes' = Append(writes, FilePath("keys"))
  /\ console' = Append(console, <<"log", "created", "keys">>)
  /\ pc' = "writeLanguages"
  /\ UNCHANGED <<header, rows, i, j, translations, keyMap, languages,
                 dirCreated, exitCode>>

WriteKeysFail ==
  /\ pc = "writeKeys"
  /\ Reject

WriteLanguagesOk ==
  /\ pc = "writeLanguages"
  /\ disk' = WriteFile(disk, FilePath("languages"), StringifyArray(languages))
  /\ writes' = Append(writes, FilePath("languages"))
  /\ console' = console \o <<<<"log", "created", "languages">>, <<"log", "success">>>>
  /\ pc' = "resolved"
  /\ UNCHANGED <<header, rows, i, j, translations, keyMap, languages,
                 dirCreated, exitCode>>

WriteLanguagesFail ==
  /\ pc = "writeLanguages"
  /\ Reject

(* a handler that logs nothing *)
Catch_Silent ==
  /\ pc = "rejected"
  /\ pc' = "caught"
  /\ UNCHANGED <<header, rows, i, j, translations, keyMap, languages,
                 dirCreated, disk, writes, console, exitCode>>

(* .catch((err) => console.error(...)): the rejection is handled *)
Catch ==
  /\ pc = "rejected"
  /\ console' = Append(console, <<"error", "failed">>)
  /\ pc' = "caught"
  /\ UNCHANGED <<header, rows, i, j, translations, keyMap, languages,
                 dirCreated, disk, writes, exitCode>>

(* the promise chain has settled with no unhandled rejection: node exits 0 *)
Exit ==
  /\ pc \in {"resolved", "caught"}
  /\ exitCode' = 0
  /\ pc' = "exited"
  /\ UNCHANGED <<header, rows, i, j, translations, keyMap, languages,
                 dirCreated, disk, writes, console>>

Next ==
  \/ Start
  \/ FetchOk
  \/ FetchFail
  \/ SkipRow
  \/ BeginRow
  \/ SkipCell
  \/ StoreCell
  \/ MkdirOk
  \/ MkdirFail
  \/ WriteLangOk
  \/ WriteLangFail
  \/ WriteKeysOk
  \/ WriteKeysFail
  \/ WriteLanguagesOk
  \/ WriteLanguagesFail
  \/ Catch
  \/ Exit

Spec == Init /\ [][Next]_vars

(* --------------- the transform as a function of the rows --------------- *)

Empty == [translations |-> <<>>, keyMap |-> <<>>, languages |-> <<>>]

(* lines 49-64: one iteration of the inner loop *)
TransformCell(st, h, row, c) ==
  IF ColumnsOf(h)[c] = "key" \/ Falsy(Cell(row, c)) THEN st
  ELSE [st EXCEPT
          !.translations =
             StoreTranslation(st.translations, ColumnsOf(h)[c], RawKey(row), Cell(row, c)),
          !.languages = Add(st.languages, ColumnsOf(h)[c])]

RECURSIVE TransformCells(_, _, _, _)
TransformCells(st, h, row, c) ==
  IF c > Len(ColumnsOf(h)) THEN st
  ELSE TransformCells(TransformCell(st, h, row, c), h, row, c + 1)

(* lines 41-65: one iteration of the outer loop *)
TransformRow(st, h, row) ==
  IF Falsy(RawKey(row)) THEN st
  ELSE TransformCells([st EXCEPT !.keyMap = Put(st.keyMap, RawKey(row), RawKey(row))],
                      h, row, 1)

RECURSIVE TransformRows(_, _, _)
TransformRows(st, h, rs) ==
  IF rs = <<>> THEN st
  ELSE TransformRows(TransformRow(st, h, Head(rs)), h, Tail(rs))

(* ------------- the inner loop on one cell of every content ------------- *)

Strings(n) == UNION {[1..m -> Chars] : m \in 0..n}

InitEscape ==
  /\ pc = "row"
  /\ header = <<"en">>
  /\ rows \in {<<[key |-> <<"a">>, cells |-> <<v>>]>> : v \in Strings(MaxLen)}
  /\ i = 1
  /\ j = 1
  /\ translations = <<>>
  /\ keyMap = <<>>
  /\ languages = <<>>
  /\ dirCreated = FALSE
  /\ disk = <<>>
  /\ writes = <<>>
  /\ console = <<<<"log", "fetching">>>>
  /\ exitCode = "running"

NextEscape ==
  \/ BeginRow
  \/ SkipCell
  \/ StoreCell

SpecEscape == InitEscape /\ [][NextEscape]_vars

(* ======================= properties of the run ========================= *)

(* the row loop has just finished; the three structures are final (C8) *)
Transformed == pc = "mkdir"

Succeeded == <<"log", "success">> \in Elements(console)

Diagnosed == <<"error", "failed">> \in Elements(console)

(* a key column that is absent, empty or made of whitespace only *)
BlankKey(row) ==
  row.key = Undefined \/ \A n \in 1..Len(row.key) : row.key[n] \in Whitespace

KeptRows == SelectSeq(rows, LAMBDA r : ~BlankKey(r))

(* rows with a usable key that hold a non-empty cell in language column c *)
Filled(c) == {n \in 1..Len(rows) : ~BlankKey(rows[n]) /\ rows[n].cells[c] # <<>>}

Max(S) == CHOOSE n \in S : \A m \in S : m <= n

Min(S) == CHOOSE n \in S : \A m \in S : n <= m

(* C1: when the row loop finishes, translations, keyMap and languages
   are what the transform yields for the input with every row removed whose
   key column is absent, empty or whitespace-only. *)
C1_BlankKeyRowsDropped ==
  Transformed =>
    [translations |-> translations, keyMap |-> keyMap, languages |-> languages]
      = TransformRows(Empty, header, KeptRows)

C1_Witness ==
  /\ pc = "mkdir"
  /\ Len(rows) = 2
  /\ BlankKey(rows[1])
  /\ rows[1].key = <<"SP">>
  /\ rows[1].cells[1] = <<"DQ">>
  /\ ~BlankKey(rows[2])
  /\ Len(keyMap) = 1

(* C2: processing an empty cell of a language column, in a row with a
   non-empty trimmed key, leaves translations and languages as they were,
   and the row's key is in keyMap. *)
C2_EmptyCellNoEntry ==
  [][(pc = "cell" /\ j > 1 /\ rows[i].cells[j - 1] = <<>>) =>
       /\ translations' = translations
       /\ languages' = languages
       /\ Has(keyMap', Trim(rows[i].key))]_vars

C2_Witness ==
  /\ pc = "mkdir"
  /\ Len(rows) = 1
  /\ rows[1].key = <<"b">>
  /\ rows[1].cells[1] = <<"DQ">>
  /\ rows[1].cells[2] = <<>>
  /\ Has(keyMap, <<"b">>)
  /\ Elements(languages) = {header[1]}
  /\ Keys(translations) = {header[1]}

(* C3: no value stored in translations is the empty string. *)
C3_NoEmptyStored ==
  \A n \in 1..Len(translations) :
    \A m \in 1..Len(translations[n][2]) : translations[n][2][m][2] # <<>>

(* ---- the escaping stated as one pass over the characters, then a cut ---- *)

RECURSIVE EscapeChars(_)
EscapeChars(s) ==
  IF s = <<>> THEN <<>>
  ELSE IF Head(s) = "BS" THEN <<"BS", "BS">> \o EscapeChars(Tail(s))
  ELSE IF Head(s) = "DQ" THEN <<"BS", "DQ">> \o EscapeChars(Tail(s))
  ELSE IF Head(s) = "LF" THEN <<"BS", "n">> \o EscapeChars(Tail(s))
  ELSE IF Head(s) = "CR" /\ Len(s) >= 2 /\ s[2] = "LF"
    THEN <<"BS", "n">> \o EscapeChars(Tail(Tail(s)))
  ELSE <<Head(s)>> \o EscapeChars(Tail(s))

Strip(s) ==
  LET ink == {n \in 1..Len(s) : s[n] \notin Whitespace}
  IN IF ink = {} THEN <<>> ELSE SubSeq(s, Min(ink), Max(ink))

Stored(lang, key) == Get(Get(translations, lang), key)

(* C4: the value stored for a non-empty cell is the cell with every
   backslash doubled, every double quote preceded by one backslash, every
   LF or CR LF replaced by backslash n, and surrounding whitespace cut;
   backslash quote is stored as three backslashes and a quote, and no LF is
   left in a stored value. *)
C4_EscapedValue ==
  (pc = "mkdir" /\ rows[1].cells[1] # <<>>) =>
    /\ Has(translations, "en")
    /\ Has(Get(translations, "en"), <<"a">>)
    /\ Stored("en", <<"a">>) = Strip(EscapeChars(rows[1].cells[1]))
    /\ \A n \in 1..Len(Stored("en", <<"a">>)) : Stored("en", <<"a">>)[n] # "LF"
    /\ rows[1].cells[1] = <<"BS", "DQ">> =>
         Stored("en", <<"a">>) = <<"BS", "BS", "BS", "DQ">>
    /\ rows[1].cells[1] = <<"a", "CR", "LF", "a">> =>
         Stored("en", <<"a">>) = <<"a", "BS", "n", "a">>

C4_Witness ==
  /\ pc = "mkdir"
  /\ rows[1].cells[1] = <<"BS", "DQ", "CR", "LF">>
  /\ Stored("en", <<"a">>) = <<"BS", "BS", "BS", "DQ", "BS", "n">>

(* columns of the header that received a file from the language loop *)
LanguageWrites == SubSeq(writes, 1, Len(writes) - 2)

(* C5 as stated: after a successful run every language column of the header
   has its file. *)
C5_FilePerHeaderColumn ==
  Succeeded => \A c \in 1..Len(header) : FilePath(header[c]) \in DOMAIN disk

(* C5 amended: after a successful run the language loop has written one
   file for each language column that holds a non-empty cell in some row
   with a non-empty key, and none for any other column. *)
C5_FilePerFilledColumn ==
  Succeeded =>
    /\ \A c \in 1..Len(header) :
         Filled(c) # {} <=> FilePath(header[c]) \in Elements(LanguageWrites)
    /\ Len(LanguageWrites) = Cardinality({c \in 1..Len(header) : Filled(c) # {}})

C5_Witness ==
  /\ Succeeded
  /\ header = <<"en", "fr">>
  /\ Filled(1) # {}
  /\ Filled(2) = {}
  /\ DOMAIN disk = {FilePath("en"), FilePath("keys"), FilePath("languages")}

(* C6: after a successful run the file of every language of the Language
   Set holds that language's map, keys.json holds the Key Registry and
   languages.json holds the Language Set. *)
C6_FilesHoldTheirStructure ==
  Succeeded =>
    /\ \A n \in 1..Len(languages) :
         /\ FilePath(languages[n]) \in DOMAIN disk
         /\ disk[FilePath(languages[n])]
              = StringifyObject(Get(translations, languages[n]))
    /\ disk[FilePath("keys")] = StringifyObject(keyMap)
    /\ disk[FilePath("languages")] = StringifyArray(languages)

(* a run that ended without writing every file *)
Incomplete == Len(writes) < Len(translations) + 2

WriteSequence ==
  [n \in 1..Len(translations) |-> FilePath(translations[n][1])]
    \o <<FilePath("keys"), FilePath("languages")>>

Settled == pc \in {"rejected", "caught", "resolved", "exited"}

(* C8: the writes are a prefix of the write sequence and the disk holds
   exactly the files written; nothing is written before the directory
   exists, the directory is created only after the row loop, and the three
   structures no longer change then; a failed fetch leaves no directory and
   no file; a settled run fetches, creates and writes nothing more; the
   success message is printed only once languages.json, the last file of
   the sequence, is written. *)
C8_SequentialPrefix ==
  /\ [](/\ Len(writes) <= Len(WriteSequence)
        /\ writes = SubSeq(WriteSequence, 1, Len(writes))
        /\ DOMAIN disk = Elements(writes)
        /\ writes # <<>> => dirCreated
        /\ dirCreated => pc \notin {"start", "fetch", "row", "cell", "mkdir"}
        /\ (Settled /\ header = <<>>) => (~dirCreated /\ writes = <<>>)
        /\ Succeeded => writes = WriteSequence)
  /\ [][dirCreated =>
          UNCHANGED <<header, rows, translations, keyMap, languages>>]_vars
  /\ [][pc # "fetch" => UNCHANGED <<header, rows>>]_vars
  /\ [][Settled =>
          (Settled' /\ UNCHANGED <<disk, writes, dirCreated>>)]_vars
  /\ [][Len(writes') <= Len(writes) + 1
          /\ \A f \in DOMAIN disk : f \in DOMAIN disk']_vars

C8_Witness ==
  /\ pc = "exited"
  /\ Len(translations) = 2
  /\ Len(writes) = 1
  /\ dirCreated
  /\ ~Succeeded

(* C9: when the row loop finishes, the value stored for a key under a
   language is the escaped cell of the last row with that trimmed key whose
   cell for the language is non-empty, there is no value when no such row
   exists, and keyMap holds each key once. *)
C9_LastRowWins ==
  Transformed =>
    /\ \A n \in 1..Len(rows) : ~BlankKey(rows[n]) =>
         LET k == Strip(rows[n].key) IN
         /\ Cardinality({m \in 1..Len(keyMap) : keyMap[m][1] = k}) = 1
         /\ \A c \in 1..Len(header) :
              LET same == {m \in Filled(c) : Strip(rows[m].key) = k} IN
              IF same = {}
                THEN ~(Has(translations, header[c])
                         /\ Has(Get(translations, header[c]), k))
                ELSE /\ Has(translations, header[c])
                     /\ Has(Get(translations, header[c]), k)
                     /\ Stored(header[c], k) = SafeValue(rows[Max(same)].cells[c])

C9_Witness ==
  /\ pc = "mkdir"
  /\ Len(rows) = 2
  /\ rows[1].key = <<"a">>
  /\ rows[2].key = <<"SP", "a">>
  /\ rows[1].cells[1] = <<"SP">>
  /\ rows[2].cells[1] = <<"DQ">>
  /\ rows[1].cells[2] = <<"DQ">>
  /\ rows[2].cells[2] = <<>>
  /\ Stored(header[1], <<"a">>) = <<"BS", "DQ">>
  /\ Stored(header[2], <<"a">>) = <<"BS", "DQ">>
  /\ Len(keyMap) = 1

(* C10: between rows, languages holds exactly the languages that have an
   entry in translations, no language's map is empty, and every key of a
   language's map is in keyMap, mapped to itself. *)
C10_StructuresConsistent ==
  pc # "cell" =>
    /\ Elements(languages) = Keys(translations)
    /\ \A n \in 1..Len(translations) :
         /\ translations[n][2] # <<>>
         /\ \A k \in Keys(translations[n][2]) :
              Has(keyMap, k) /\ Get(keyMap, k) = k

C10_Witness ==
  /\ pc = "row"
  /\ i = 2
  /\ Len(translations) = 2
  /\ Len(translations[1][2]) = 1
  /\ rows[1].key = <<"SP", "a">>
  /\ Has(keyMap, <<"a">>)

====
